---- MODULE Spec2Model ----
(***************************************************************************)
(* The DID chaincode of src/did-contract.go (version 1.2x, lines 1-440):   *)
(* the DID record state machine CreateDID / UpdateDID / RecoverDID /       *)
(* GetDID / ListDIDs over the ledger's world state.                        *)
(*                                                                         *)
(* Go strings are sequences of tokens (one token per character, except     *)
(* that a few fixed words such as "recovery" and the MSP identifiers are   *)
(* single tokens; no token is a prefix of another, so two token sequences  *)
(* are equal exactly when the strings they spell are equal).  Byte slices  *)
(* ([]byte) are records tagged with what they hold.                        *)
(***************************************************************************)
EXTENDS Integers, Sequences, FiniteSets, TLC

VARIABLES
    ledger,     \* the world state: a map from key (did) to the stored bytes
    tx,         \* the transaction being served (the stub of Invoke), or NoTx
    resp,       \* the peer.Response of the transaction being served
    env,        \* the name of the workload the clients draw their inputs from
    replica,    \* a second peer that executes the same transactions: its world
                \* state and its response (it takes part in ReplicaSpec only)
    pending,    \* the transactions executed and not yet committed or
                \* invalidated, each with what it read and what it writes
    commits,    \* for each did, the number of UpdateDID and RecoverDID
                \* transactions committed (both in ConcurrentSpec only)
    iterators   \* the number of range-scan iterators the handler of the
                \* transaction being served left open when it returned

vars == <<ledger, tx, resp, env, replica, pending, commits, iterators>>

(***************************************************************************)
(* Bounds                                                                  *)
(***************************************************************************)
\* UpdateDID and RecoverDID are not submitted for a record at this version.
MaxVersion == 3

(***************************************************************************)
(* Strings                                                                 *)
(***************************************************************************)
\* strings.Contains(s, substr)
Contains(s, substr) ==
    \E i \in 0..(Len(s) - Len(substr)) :
        SubSeq(s, i + 1, i + Len(substr)) = substr

Digits == <<"0", "1", "2", "3", "4", "5", "6", "7", "8", "9">>

\* the verb %d of fmt.Sprintf, for n >= 0
RECURSIVE Itoa(_)
Itoa(n) ==
    IF n < 10 THEN <<Digits[n + 1]>>
    ELSE Itoa(n \div 10) \o <<Digits[(n % 10) + 1]>>

\* hex.EncodeToString(sha256.Sum256(data))[:16].  SHA-256 is taken as a
\* perfect hash: the 16 hexadecimal characters are one block that names the
\* data hashed, so two blocks are equal exactly when the data are equal.
\* A signature string is a sequence of such blocks and of blocks of other
\* characters; the result is the string made of the one block.
ExpectedSig16(data) == << <<"sha256/16:">> \o data >>

\* The byte order of the tokens that occur in keys.
Alphabet == <<"1", "2", "3", ":", "K", "L", "a", "b", "d">>
Rank(c) == CHOOSE i \in 1..Len(Alphabet) : Alphabet[i] = c

\* s < t in the byte-wise lexicographic order of strings
RECURSIVE Less(_, _)
Less(s, t) ==
    IF t = <<>> THEN FALSE
    ELSE IF s = <<>> THEN TRUE
    ELSE IF Head(s) = Head(t) THEN Less(Tail(s), Tail(t))
    ELSE Rank(Head(s)) < Rank(Head(t))

(***************************************************************************)
(* DIDDocument and its JSON encoding                                       *)
(***************************************************************************)
\* time.Time{}: the zero value of RecoveredAt; transaction times are >= 1
ZeroTime == 0

\* the zero value of the struct DIDDocument
ZeroDIDDocument ==
    [DID |-> <<>>, LongFormDID |-> <<>>, Document |-> <<>>,
     CreatedAt |-> ZeroTime, UpdatedAt |-> ZeroTime, Version |-> 0,
     Recovered |-> FALSE, RecoveredAt |-> ZeroTime,
     UpdateKey |-> <<>>, RecoveryKey |-> <<>>,
     CreatedBy |-> <<>>, EndorsedBy |-> <<>>]

\* a nil byte slice
NilBytes == [kind |-> "nil"]

\* a JSON member that is left out when omitempty applies to its value
Member(name, value, omit) == IF omit THEN <<>> ELSE (name :> value)

\* json.Marshal(DIDDocument): the object with the members the struct tags
\* give.  omitempty leaves out false, "" and an empty slice; it does not
\* apply to a struct, so recoveredAt (a time.Time) is always written.
\* Strings are valid UTF-8 and times lie in the years 0..9999, so that
\* json.Marshal writes them as they are and returns no error.
Marshal(d) ==
    [kind |-> "json",
     obj  |-> [did |-> d.DID, longFormDid |-> d.LongFormDID,
               document |-> d.Document, createdAt |-> d.CreatedAt,
               updatedAt |-> d.UpdatedAt, version |-> d.Version,
               recoveredAt |-> d.RecoveredAt]
              @@ Member("recovered", d.Recovered, d.Recovered = FALSE)
              @@ Member("updateKey", d.UpdateKey, d.UpdateKey = <<>>)
              @@ Member("recoveryKey", d.RecoveryKey, d.RecoveryKey = <<>>)
              @@ Member("createdBy", d.CreatedBy, d.CreatedBy = <<>>)
              @@ Member("endorsedBy", d.EndorsedBy, d.EndorsedBy = <<>>)]

\* the value json.Unmarshal gives a field: the member if the object has it,
\* else what the (zero) struct held
Field(obj, name, zero) == IF name \in DOMAIN obj THEN obj[name] ELSE zero

\* json.Unmarshal(bytes, &DIDDocument) into a zero struct: err is TRUE when
\* the bytes are neither a JSON object nor the JSON null, which leaves the
\* struct as it was
Unmarshal(bytes) ==
    IF bytes.kind = "json null" THEN [err |-> FALSE, doc |-> ZeroDIDDocument]
    ELSE IF bytes.kind # "json" THEN [err |-> TRUE, doc |-> ZeroDIDDocument]
    ELSE [err |-> FALSE,
          doc |-> [DID         |-> Field(bytes.obj, "did", <<>>),
                   LongFormDID |-> Field(bytes.obj, "longFormDid", <<>>),
                   Document    |-> Field(bytes.obj, "document", <<>>),
                   CreatedAt   |-> Field(bytes.obj, "createdAt", ZeroTime),
                   UpdatedAt   |-> Field(bytes.obj, "updatedAt", ZeroTime),
                   Version     |-> Field(bytes.obj, "version", 0),
                   Recovered   |-> Field(bytes.obj, "recovered", FALSE),
                   RecoveredAt |-> Field(bytes.obj, "recoveredAt", ZeroTime),
                   UpdateKey   |-> Field(bytes.obj, "updateKey", <<>>),
                   RecoveryKey |-> Field(bytes.obj, "recoveryKey", <<>>),
                   CreatedBy   |-> Field(bytes.obj, "createdBy", <<>>),
                   EndorsedBy  |-> Field(bytes.obj, "endorsedBy", <<>>)]]

(***************************************************************************)
(* The ledger platform, as the handlers use it through the stub            *)
(***************************************************************************)
\* shim.Error(msg) and shim.Success(payload).  A message built with a format
\* is kept as its format.
Error(msg) == [status |-> "ERROR", message |-> msg, payload |-> NilBytes]
Success(payload) == [status |-> "OK", message |-> "", payload |-> payload]

\* what a handler returns to Invoke: the response, the world state it
\* leaves and the number of its range-scan iterators that are still open
Return(response, state) == [resp |-> response, state |-> state, open |-> 0]

\* resultsIterator, err := stub.GetStateByRange(...) gave an iterator to the
\* handler that returns r
Opened(r) == [r EXCEPT !.open = @ + 1]

\* resultsIterator.Close() ran before the handler returned r
Closed(r) == [r EXCEPT !.open = @ - 1]

\* The error kinds, by the message the handlers give shim.Error
InvalidArgument(r) ==
    /\ r.status = "ERROR"
    /\ r.message \in {"Incorrect number of arguments. Expecting 3-5",
                      "Incorrect number of arguments. Expecting 3",
                      "Incorrect number of arguments. Expecting 1"}
AlreadyExists(r) == r.status = "ERROR" /\ r.message = "DID %s already exists"
NotFound(r) == r.status = "ERROR" /\ r.message = "DID %s does not exist"
Unauthorized(r) ==
    /\ r.status = "ERROR"
    /\ r.message \in {"Invalid operation signature for update",
                      "Invalid recovery signature"}
Corruption(r) == r.status = "ERROR" /\ r.message = "json.Unmarshal: %s"
WriteFailed(r) == r.status = "ERROR" /\ r.message = "PutState: %s"

\* stub.GetState(key): nil when the key is absent
GetState(state, key) == IF key \in DOMAIN state THEN state[key] ELSE NilBytes

\* stub.PutState(key, value)
PutState(state, key, value) == (key :> value) @@ state

\* stub.PutState returns an error, and writes nothing, when the key is the
\* empty string (the stub of fabric-chaincode-go refuses it)
KeyRefused(key) == key = <<>>

\* A transaction names in stub.fail the one platform call that returns an
\* error when the handler makes it ("" when none does).
Fails(stub, call) == stub.fail = call

(***************************************************************************)
(* validateSignature and the caller's organization                         *)
(***************************************************************************)
\* Mutation of validateSignature: the digest prefix has to open the
\* signature (strings.HasPrefix)
validateSignaturePrefix(message, signature, publicKey) ==
    IF signature = <<>> \/ publicKey = <<>> THEN FALSE
    ELSE /\ Len(signature) >= 1
         /\ SubSeq(signature, 1, 1) = ExpectedSig16(message \o publicKey)

\* Mutation of validateSignature: the signature has to be the digest prefix
\* itself
validateSignatureEquals(message, signature, publicKey) ==
    IF signature = <<>> \/ publicKey = <<>> THEN FALSE
    ELSE signature = ExpectedSig16(message \o publicKey)

validateSignature(message, signature, publicKey) ==
    IF signature = <<>> \/ publicKey = <<>> THEN FALSE
    ELSE Contains(signature, ExpectedSig16(message \o publicKey))

MspCompanyA == "m-FQEEX22AZNEGDDJL4WCQP6KYHU"
MspCompanyB == "m-JLGL2ZEX6BDIXIEFYD4RJVZSTI"

\* the organization label the handlers derive from stub.GetCreator()
OrganizationOf(creator) ==
    IF Contains(creator, <<MspCompanyA>>) THEN <<"CompanyA">>
    ELSE IF Contains(creator, <<MspCompanyB>>) THEN <<"CompanyB">>
    ELSE <<"unknown">>

\* Mutation of Endorse: the organization is appended without the search
EndorseAlways(endorsedBy, org) == Append(endorsedBy, org)

\* "Add to endorsed by list if not already present"
Endorse(endorsedBy, org) ==
    IF \E i \in 1..Len(endorsedBy) : endorsedBy[i] = org THEN endorsedBy
    ELSE Append(endorsedBy, org)

\* fmt.Sprintf("%s:%s:%d", did, updatedDocumentJSON, version)
UpdateMessage(did, document, version) ==
    did \o <<":">> \o document \o <<":">> \o Itoa(version)

\* fmt.Sprintf("%s:recovery:%s:%d", did, newDocumentJSON, version)
RecoveryMessage(did, document, version) ==
    did \o <<":", "recovery", ":">> \o document \o <<":">> \o Itoa(version)

(***************************************************************************)
(* The handlers                                                            *)
(***************************************************************************)
\* the optional argument args[i] of createDID
OptionalArg(args, i) == IF Len(args) >= i THEN args[i] ELSE <<>>

\* Mutation of DIDExists: the check for an existing DID is missing
DIDExistsNever(existingDID) == FALSE

\* "Check if DID already exists": existingDID != nil
DIDExists(existingDID) == existingDID # NilBytes

\* Mutation of DIDMissing: the check for a missing DID is missing
DIDMissingNever(didJSON) == FALSE

\* didJSON == nil in updateDID, recoverDID and getDID
DIDMissing(didJSON) == didJSON = NilBytes

\* Mutation of NewDIDDocument: the two optional keys are stored in each
\* other's field
NewDIDDocumentKeysSwapped(did, longFormDid, documentJSON, updateKey, recoveryKey, txTime, createdBy) ==
    [DID |-> did, LongFormDID |-> longFormDid, Document |-> documentJSON,
     CreatedAt |-> txTime, UpdatedAt |-> txTime, Version |-> 1,
     Recovered |-> FALSE, RecoveredAt |-> ZeroTime,
     UpdateKey |-> recoveryKey, RecoveryKey |-> updateKey,
     CreatedBy |-> createdBy, EndorsedBy |-> <<createdBy>>]

\* Mutation of NewDIDDocument: the creator is not entered in the endorsers
NewDIDDocumentNotEndorsed(did, longFormDid, documentJSON, updateKey, recoveryKey, txTime, createdBy) ==
    [DID |-> did, LongFormDID |-> longFormDid, Document |-> documentJSON,
     CreatedAt |-> txTime, UpdatedAt |-> txTime, Version |-> 1,
     Recovered |-> FALSE, RecoveredAt |-> ZeroTime,
     UpdateKey |-> updateKey, RecoveryKey |-> recoveryKey,
     CreatedBy |-> createdBy, EndorsedBy |-> <<>>]

\* "Create DID document with organization tracking"
NewDIDDocument(did, longFormDid, documentJSON, updateKey, recoveryKey, txTime, createdBy) ==
    [DID |-> did, LongFormDID |-> longFormDid, Document |-> documentJSON,
     CreatedAt |-> txTime, UpdatedAt |-> txTime, Version |-> 1,
     Recovered |-> FALSE, RecoveredAt |-> ZeroTime,
     UpdateKey |-> updateKey, RecoveryKey |-> recoveryKey,
     CreatedBy |-> createdBy, EndorsedBy |-> <<createdBy>>]

\* Mutation of UpdateAuthorized: the message is built with the current
\* version, not the next one
UpdateAuthorizedCurrentVersion(existingDID, did, updatedDocumentJSON, operationSignature) ==
    \/ existingDID.UpdateKey = <<>>
    \/ validateSignature(
           UpdateMessage(did, updatedDocumentJSON, existingDID.Version),
           operationSignature, existingDID.UpdateKey)

\* Mutation of UpdateAuthorized: a signature over any version up to the
\* next one is taken
UpdateAuthorizedAnyVersion(existingDID, did, updatedDocumentJSON, operationSignature) ==
    \/ existingDID.UpdateKey = <<>>
    \/ \E n \in 1..(existingDID.Version + 1) :
           validateSignature(UpdateMessage(did, updatedDocumentJSON, n),
                             operationSignature, existingDID.UpdateKey)

\* Mutation of UpdateAuthorized: the signature is validated as soon as the
\* record has any key
UpdateAuthorizedAnyKey(existingDID, did, updatedDocumentJSON, operationSignature) ==
    \/ existingDID.UpdateKey = <<>> /\ existingDID.RecoveryKey = <<>>
    \/ validateSignature(
           UpdateMessage(did, updatedDocumentJSON, existingDID.Version + 1),
           operationSignature, existingDID.UpdateKey)

\* "Validate signature if updateKey exists"
UpdateAuthorized(existingDID, did, updatedDocumentJSON, operationSignature) ==
    \/ existingDID.UpdateKey = <<>>
    \/ validateSignature(
           UpdateMessage(did, updatedDocumentJSON, existingDID.Version + 1),
           operationSignature, existingDID.UpdateKey)

\* Mutation of RecoveryAuthorized: the recovery is validated under the
\* update key
RecoveryAuthorizedByUpdateKey(existingDID, did, newDocumentJSON, recoverySignature) ==
    \/ existingDID.UpdateKey = <<>>
    \/ validateSignature(
           RecoveryMessage(did, newDocumentJSON, existingDID.Version + 1),
           recoverySignature, existingDID.UpdateKey)

\* "Validate recovery signature if recoveryKey exists"
RecoveryAuthorized(existingDID, did, newDocumentJSON, recoverySignature) ==
    \/ existingDID.RecoveryKey = <<>>
    \/ validateSignature(
           RecoveryMessage(did, newDocumentJSON, existingDID.Version + 1),
           recoverySignature, existingDID.RecoveryKey)

\* Mutation of Updated: the version is not incremented
UpdatedSameVersion(existingDID, updatedDocumentJSON, txTime, updatedBy) ==
    [existingDID EXCEPT
        !.Document   = updatedDocumentJSON,
        !.UpdatedAt  = txTime,
        !.EndorsedBy = Endorse(@, updatedBy)]

\* Mutation of Updated: the document is rebuilt without its recovery state
UpdatedNotRecovered(existingDID, updatedDocumentJSON, txTime, updatedBy) ==
    [existingDID EXCEPT
        !.Document    = updatedDocumentJSON,
        !.UpdatedAt   = txTime,
        !.Version     = @ + 1,
        !.Recovered   = FALSE,
        !.RecoveredAt = ZeroTime,
        !.EndorsedBy  = Endorse(@, updatedBy)]

\* "Update DID document with endorsement tracking"
Updated(existingDID, updatedDocumentJSON, txTime, updatedBy) ==
    [existingDID EXCEPT
        !.Document   = updatedDocumentJSON,
        !.UpdatedAt  = txTime,
        !.Version    = @ + 1,
        !.EndorsedBy = Endorse(@, updatedBy)]

\* Mutation of Recovered: the recovery also restarts the creation time
RecoveredCreatedAnew(existingDID, newDocumentJSON, txTime, recoveredBy) ==
    [existingDID EXCEPT
        !.Document    = newDocumentJSON,
        !.CreatedAt   = txTime,
        !.UpdatedAt   = txTime,
        !.Version     = @ + 1,
        !.Recovered   = TRUE,
        !.RecoveredAt = txTime,
        !.EndorsedBy  = Endorse(@, recoveredBy)]

\* Mutation of Recovered: the time of the first recovery is kept
RecoveredFirstTime(existingDID, newDocumentJSON, txTime, recoveredBy) ==
    [existingDID EXCEPT
        !.Document    = newDocumentJSON,
        !.UpdatedAt   = txTime,
        !.Version     = @ + 1,
        !.Recovered   = TRUE,
        !.RecoveredAt = IF existingDID.Recovered THEN @ ELSE txTime,
        !.EndorsedBy  = Endorse(@, recoveredBy)]

\* "Recover DID document with endorsement tracking"
Recovered(existingDID, newDocumentJSON, txTime, recoveredBy) ==
    [existingDID EXCEPT
        !.Document    = newDocumentJSON,
        !.UpdatedAt   = txTime,
        !.Version     = @ + 1,
        !.Recovered   = TRUE,
        !.RecoveredAt = txTime,
        !.EndorsedBy  = Endorse(@, recoveredBy)]

\* Mutation of createDID: the record is also stored under its long form
createDIDIndexesLongForm(stub, state) ==
    LET args == stub.args IN
    IF Len(args) < 3 \/ Len(args) > 5
    THEN Return(Error("Incorrect number of arguments. Expecting 3-5"), state)
    ELSE
    LET did         == args[1]
        existingDID == GetState(state, did)
        didDocument ==
            NewDIDDocument(did, args[2], args[3],
                           OptionalArg(args, 4), OptionalArg(args, 5),
                           stub.txTimestamp, OrganizationOf(stub.creator))
        didJSON     == Marshal(didDocument)
    IN
    IF Fails(stub, "GetState")
    THEN Return(Error("Failed to get DID: %s"), state)
    ELSE IF DIDExists(existingDID)
    THEN Return(Error("DID %s already exists"), state)
    ELSE IF Fails(stub, "GetTxTimestamp")
    THEN Return(Error("Failed to get transaction timestamp: %s"), state)
    ELSE IF Fails(stub, "GetCreator")
    THEN Return(Error("Failed to get creator: %s"), state)
    ELSE IF Fails(stub, "PutState") \/ KeyRefused(did)
    THEN Return(Error("PutState: %s"), state)
    ELSE Return(Success(didJSON),
                PutState(PutState(state, did, didJSON), args[2], didJSON))

createDID(stub, state) ==
    LET args == stub.args IN
    IF Len(args) < 3 \/ Len(args) > 5
    THEN Return(Error("Incorrect number of arguments. Expecting 3-5"), state)
    ELSE
    LET did         == args[1]
        existingDID == GetState(state, did)
        didDocument ==
            NewDIDDocument(did, args[2], args[3],
                           OptionalArg(args, 4), OptionalArg(args, 5),
                           stub.txTimestamp, OrganizationOf(stub.creator))
        didJSON     == Marshal(didDocument)
    IN
    IF Fails(stub, "GetState")
    THEN Return(Error("Failed to get DID: %s"), state)
    ELSE IF DIDExists(existingDID)
    THEN Return(Error("DID %s already exists"), state)
    ELSE IF Fails(stub, "GetTxTimestamp")
    THEN Return(Error("Failed to get transaction timestamp: %s"), state)
    ELSE IF Fails(stub, "GetCreator")
    THEN Return(Error("Failed to get creator: %s"), state)
    ELSE IF Fails(stub, "PutState") \/ KeyRefused(did)
    THEN Return(Error("PutState: %s"), state)
    ELSE Return(Success(didJSON), PutState(state, did, didJSON))

\* Mutation of updateDID: the response carries the bytes read, not the
\* bytes written
updateDIDReturnsRead(stub, state) ==
    LET args == stub.args IN
    IF Len(args) # 3
    THEN Return(Error("Incorrect number of arguments. Expecting 3"), state)
    ELSE
    LET did         == args[1]
        didJSON     == GetState(state, did)
        decoded     == Unmarshal(didJSON)
        existingDID == decoded.doc
        updatedJSON ==
            Marshal(Updated(existingDID, args[2], stub.txTimestamp,
                            OrganizationOf(stub.creator)))
    IN
    IF Fails(stub, "GetState")
    THEN Return(Error("Failed to get DID: %s"), state)
    ELSE IF DIDMissing(didJSON)
    THEN Return(Error("DID %s does not exist"), state)
    ELSE IF decoded.err
    THEN Return(Error("json.Unmarshal: %s"), state)
    ELSE IF Fails(stub, "GetTxTimestamp")
    THEN Return(Error("Failed to get transaction timestamp: %s"), state)
    ELSE IF ~UpdateAuthorized(existingDID, did, args[2], args[3])
    THEN Return(Error("Invalid operation signature for update"), state)
    ELSE IF Fails(stub, "GetCreator")
    THEN Return(Error("Failed to get creator: %s"), state)
    ELSE IF Fails(stub, "PutState")
    THEN Return(Error("PutState: %s"), state)
    ELSE Return(Success(didJSON), PutState(state, did, updatedJSON))

updateDID(stub, state) ==
    LET args == stub.args IN
    IF Len(args) # 3
    THEN Return(Error("Incorrect number of arguments. Expecting 3"), state)
    ELSE
    LET did         == args[1]
        didJSON     == GetState(state, did)
        decoded     == Unmarshal(didJSON)
        existingDID == decoded.doc
        updatedJSON ==
            Marshal(Updated(existingDID, args[2], stub.txTimestamp,
                            OrganizationOf(stub.creator)))
    IN
    IF Fails(stub, "GetState")
    THEN Return(Error("Failed to get DID: %s"), state)
    ELSE IF DIDMissing(didJSON)
    THEN Return(Error("DID %s does not exist"), state)
    ELSE IF decoded.err
    THEN Return(Error("json.Unmarshal: %s"), state)
    ELSE IF Fails(stub, "GetTxTimestamp")
    THEN Return(Error("Failed to get transaction timestamp: %s"), state)
    ELSE IF ~UpdateAuthorized(existingDID, did, args[2], args[3])
    THEN Return(Error("Invalid operation signature for update"), state)
    ELSE IF Fails(stub, "GetCreator")
    THEN Return(Error("Failed to get creator: %s"), state)
    ELSE IF Fails(stub, "PutState")
    THEN Return(Error("PutState: %s"), state)
    ELSE Return(Success(updatedJSON), PutState(state, did, updatedJSON))

\* Mutation of recoverDID: the recovered document is written before the
\* signature is validated
recoverDIDWriteFirst(stub, state) ==
    LET args == stub.args IN
    IF Len(args) # 3
    THEN Return(Error("Incorrect number of arguments. Expecting 3"), state)
    ELSE
    LET did           == args[1]
        didJSON       == GetState(state, did)
        decoded       == Unmarshal(didJSON)
        existingDID   == decoded.doc
        recoveredJSON ==
            Marshal(Recovered(existingDID, args[2], stub.txTimestamp,
                              OrganizationOf(stub.creator)))
    IN
    IF Fails(stub, "GetState")
    THEN Return(Error("Failed to get DID: %s"), state)
    ELSE IF DIDMissing(didJSON)
    THEN Return(Error("DID %s does not exist"), state)
    ELSE IF decoded.err
    THEN Return(Error("json.Unmarshal: %s"), state)
    ELSE IF Fails(stub, "GetTxTimestamp")
    THEN Return(Error("Failed to get transaction timestamp: %s"), state)
    ELSE IF Fails(stub, "GetCreator")
    THEN Return(Error("Failed to get creator: %s"), state)
    ELSE IF Fails(stub, "PutState")
    THEN Return(Error("PutState: %s"), state)
    ELSE IF ~RecoveryAuthorized(existingDID, did, args[2], args[3])
    THEN Return(Error("Invalid recovery signature"),
                PutState(state, did, recoveredJSON))
    ELSE Return(Success(recoveredJSON), PutState(state, did, recoveredJSON))

recoverDID(stub, state) ==
    LET args == stub.args IN
    IF Len(args) # 3
    THEN Return(Error("Incorrect number of arguments. Expecting 3"), state)
    ELSE
    LET did           == args[1]
        didJSON       == GetState(state, did)
        decoded       == Unmarshal(didJSON)
        existingDID   == decoded.doc
        recoveredJSON ==
            Marshal(Recovered(existingDID, args[2], stub.txTimestamp,
                              OrganizationOf(stub.creator)))
    IN
    IF Fails(stub, "GetState")
    THEN Return(Error("Failed to get DID: %s"), state)
    ELSE IF DIDMissing(didJSON)
    THEN Return(Error("DID %s does not exist"), state)
    ELSE IF decoded.err
    THEN Return(Error("json.Unmarshal: %s"), state)
    ELSE IF Fails(stub, "GetTxTimestamp")
    THEN Return(Error("Failed to get transaction timestamp: %s"), state)
    ELSE IF ~RecoveryAuthorized(existingDID, did, args[2], args[3])
    THEN Return(Error("Invalid recovery signature"), state)
    ELSE IF Fails(stub, "GetCreator")
    THEN Return(Error("Failed to get creator: %s"), state)
    ELSE IF Fails(stub, "PutState")
    THEN Return(Error("PutState: %s"), state)
    ELSE Return(Success(recoveredJSON), PutState(state, did, recoveredJSON))

\* Mutation of getDID: the key is read before the surplus arguments are
\* counted
getDIDReadsFirst(stub, state) ==
    LET args == stub.args IN
    IF Len(args) < 1
    THEN Return(Error("Incorrect number of arguments. Expecting 1"), state)
    ELSE IF Fails(stub, "GetState")
    THEN Return(Error("Failed to get DID: %s"), state)
    ELSE IF DIDMissing(GetState(state, args[1]))
    THEN Return(Error("DID %s does not exist"), state)
    ELSE IF Len(args) # 1
    THEN Return(Error("Incorrect number of arguments. Expecting 1"), state)
    ELSE Return(Success(GetState(state, args[1])), state)

getDID(stub, state) ==
    LET args == stub.args IN
    IF Len(args) # 1
    THEN Return(Error("Incorrect number of arguments. Expecting 1"), state)
    ELSE IF Fails(stub, "GetState")
    THEN Return(Error("Failed to get DID: %s"), state)
    ELSE IF DIDMissing(GetState(state, args[1]))
    THEN Return(Error("DID %s does not exist"), state)
    ELSE Return(Success(GetState(state, args[1])), state)

\* stub.GetStateByRange("", ""): the keys of the world state, ascending
RECURSIVE Ascending(_)
Ascending(keys) ==
    IF keys = {} THEN <<>>
    ELSE LET first == CHOOSE k \in keys : \A j \in keys \ {k} : Less(k, j)
         IN <<first>> \o Ascending(keys \ {first})

\* json.Marshal([]DIDDocument): a nil slice is written as null; listDIDs
\* takes its error from stub.fail, as it does a platform call's
MarshalList(dids) ==
    IF dids = <<>> THEN [kind |-> "json null"]
    ELSE [kind |-> "json array",
          items |-> [i \in 1..Len(dids) |-> Marshal(dids[i]).obj]]

\* Mutation of listDIDs: the iterator is closed after the loop, not by a
\* deferred call
listDIDsClosesAtEnd(stub, state) ==
    LET keys == Ascending(DOMAIN state)
        dids == [i \in 1..Len(keys) |-> Unmarshal(state[keys[i]]).doc]
    IN
    IF Fails(stub, "GetStateByRange")
    THEN Return(Error("GetStateByRange: %s"), state)
    ELSE IF keys # <<>> /\ Fails(stub, "Next")
    THEN Opened(Return(Error("Next: %s"), state))
    ELSE IF \E i \in 1..Len(keys) : Unmarshal(state[keys[i]]).err
    THEN Opened(Return(Error("json.Unmarshal: %s"), state))
    ELSE IF Fails(stub, "json.Marshal")
    THEN Opened(Return(Error("json.Marshal: %s"), state))
    ELSE Closed(Opened(Return(Success(MarshalList(dids)), state)))

\* Mutation of listDIDs: a value that does not decode is skipped and the
\* records that do are returned
listDIDsSkipsUndecodable(stub, state) ==
    LET keys == Ascending(DOMAIN state)
        good == SelectSeq(keys, LAMBDA k : ~Unmarshal(state[k]).err)
        dids == [i \in 1..Len(good) |-> Unmarshal(state[good[i]]).doc]
    IN
    IF Fails(stub, "GetStateByRange")
    THEN Return(Error("GetStateByRange: %s"), state)
    ELSE IF keys # <<>> /\ Fails(stub, "Next")
    THEN Return(Error("Next: %s"), state)
    ELSE IF Fails(stub, "json.Marshal")
    THEN Return(Error("json.Marshal: %s"), state)
    ELSE Return(Success(MarshalList(dids)), state)

listDIDs(stub, state) ==
    LET keys == Ascending(DOMAIN state)
        dids == [i \in 1..Len(keys) |-> Unmarshal(state[keys[i]]).doc]
    IN
    IF Fails(stub, "GetStateByRange")
    THEN Return(Error("GetStateByRange: %s"), state)
    ELSE \* defer resultsIterator.Close() runs at every return below
         Closed(Opened(
             IF keys # <<>> /\ Fails(stub, "Next")
             THEN Return(Error("Next: %s"), state)
             ELSE IF \E i \in 1..Len(keys) : Unmarshal(state[keys[i]]).err
             THEN Return(Error("json.Unmarshal: %s"), state)
             ELSE IF Fails(stub, "json.Marshal")
             THEN Return(Error("json.Marshal: %s"), state)
             ELSE Return(Success(MarshalList(dids)), state)))

\* initLedger, getVersion and getNetworkInfo answer with a fixed text
Text(t) == [kind |-> "text", text |-> t]

\* Mutation of Invoke: the switch has a case that deletes the key
InvokeWithDelete(stub, state) ==
    CASE stub.function = "InitLedger" ->
            Return(Success(Text("DID Chaincode v1.2x initialized successfully")), state)
      [] stub.function = "CreateDID"  -> createDID(stub, state)
      [] stub.function = "UpdateDID"  -> updateDID(stub, state)
      [] stub.function = "RecoverDID" -> recoverDID(stub, state)
      [] stub.function = "GetDID"     -> getDID(stub, state)
      [] stub.function = "ListDIDs"   -> listDIDs(stub, state)
      [] stub.function = "GetVersion" ->
            Return(Success(Text("version 1.2x")), state)
      [] stub.function = "GetNetworkInfo" ->
            Return(Success(Text("network info 1.2x")), state)
      [] stub.function = "DeleteDID" /\ Len(stub.args) = 1 ->
            Return(Success(NilBytes),
                   [k \in DOMAIN state \ {stub.args[1]} |-> state[k]])
      [] OTHER -> Return(Error("Invalid function name"), state)

Invoke(stub, state) ==
    CASE stub.function = "InitLedger" ->
            Return(Success(Text("DID Chaincode v1.2x initialized successfully")), state)
      [] stub.function = "CreateDID"  -> createDID(stub, state)
      [] stub.function = "UpdateDID"  -> updateDID(stub, state)
      [] stub.function = "RecoverDID" -> recoverDID(stub, state)
      [] stub.function = "GetDID"     -> getDID(stub, state)
      [] stub.function = "ListDIDs"   -> listDIDs(stub, state)
      [] stub.function = "GetVersion" ->
            Return(Success(Text("version 1.2x")), state)
      [] stub.function = "GetNetworkInfo" ->
            Return(Success(Text("network info 1.2x")), state)
      [] OTHER -> Return(Error("Invalid function name"), state)

(***************************************************************************)
(* Workloads: the inputs the clients submit.  A behaviour runs under one   *)
(* workload, chosen by Init; each workload spreads out some of the inputs  *)
(* (keys and signatures, times and organizations, DIDs, platform failures  *)
(* and argument counts) and keeps the others to one value.                 *)
(***************************************************************************)
EmptyDid == <<>>
Did1 == <<"d", "1">>
Did2 == <<"d", "2">>
Did3 == <<"d", "3">>
LongForm1 == <<"L", "1">>
DocA == <<"a">>
DocB == <<"b">>
DocRecoveryA == <<"recovery", ":", "a">>
NoKey == <<>>
KeyK == <<"K">>
OtherKey == <<"K", "2">>
Junk == <<"z">>

\* identity bytes of a member of CompanyA, of CompanyB and of neither
CreatorA == <<"msp:", MspCompanyA, "cert">>
CreatorB == <<"msp:", MspCompanyB, "cert">>
CreatorOther == <<"msp:", "m-OTHER", "cert">>

PlatformCalls ==
    {"GetState", "GetTxTimestamp", "GetCreator", "PutState",
     "GetStateByRange", "Next"}

\* the update and recovery messages over the given dids and documents
Messages(dids, documents) ==
    UNION {{UpdateMessage(d, doc, n), RecoveryMessage(d, doc, n)} :
              <<d, doc, n>> \in dids \X documents \X (1..MaxVersion)}

\* signatures: none, junk, the digest block of a message under KeyK alone and
\* inside other characters, and the digest block under another key
Signatures(dids, documents) ==
    {<<>>, <<Junk>>}
    \cup UNION {{ExpectedSig16(m \o KeyK),
                 <<Junk>> \o ExpectedSig16(m \o KeyK) \o <<Junk>>,
                 ExpectedSig16(m \o OtherKey)} : m \in Messages(dids, documents)}

\* one DID, keys and signatures of every kind
Authorization ==
    [name |-> "authorization", dids |-> {Did1},
     documents |-> {DocA, DocRecoveryA}, keys |-> {NoKey, KeyK},
     signatures |-> Signatures({Did1}, {DocA, DocRecoveryA}),
     times |-> {1}, creators |-> {CreatorA}, fails |-> {""},
     createArgs |-> {5}, mutateArgs |-> {3}, getArgs |-> {1}]

\* one DID with keys, updated on proofs that carry the digest block inside
\* other characters, at two times by two organizations
Endorsement ==
    [name |-> "endorsement", dids |-> {Did1},
     documents |-> {DocA}, keys |-> {NoKey, KeyK},
     signatures |->
         {<<>>} \cup
         {<<Junk>> \o ExpectedSig16(UpdateMessage(Did1, DocA, n) \o KeyK) \o <<Junk>> :
             n \in 1..MaxVersion},
     times |-> {1, 2}, creators |-> {CreatorA, CreatorB}, fails |-> {""},
     createArgs |-> {5}, mutateArgs |-> {3}, getArgs |-> {1}]

\* one DID, every time and every organization
Attribution ==
    [name |-> "attribution", dids |-> {Did1},
     documents |-> {DocA, DocB}, keys |-> {NoKey},
     signatures |-> {<<>>},
     times |-> {1, 2}, creators |-> {CreatorA, CreatorB, CreatorOther},
     fails |-> {""},
     createArgs |-> {3}, mutateArgs |-> {3}, getArgs |-> {1}]

\* two DIDs
Registry ==
    [name |-> "registry", dids |-> {Did1, Did2},
     documents |-> {DocA, DocB}, keys |-> {NoKey},
     signatures |-> {<<>>, <<Junk>>},
     times |-> {1}, creators |-> {CreatorA}, fails |-> {""},
     createArgs |-> {3, 4, 5}, mutateArgs |-> {3}, getArgs |-> {1}]

\* the empty did and one DID, every platform failure and every number of
\* arguments
Faults ==
    [name |-> "faults", dids |-> {EmptyDid, Did1},
     documents |-> {DocA, DocB}, keys |-> {NoKey, KeyK},
     signatures |-> {<<>>, <<Junk>>, ExpectedSig16(UpdateMessage(Did1, DocA, 2) \o KeyK),
                     ExpectedSig16(RecoveryMessage(Did1, DocA, 2) \o KeyK)},
     times |-> {1}, creators |-> {CreatorA}, fails |-> {""} \cup PlatformCalls,
     createArgs |-> 2..6, mutateArgs |-> 2..4, getArgs |-> 0..2]

\* one DID, for the two peers of ReplicaSpec
Replication ==
    [name |-> "replication", dids |-> {Did1},
     documents |-> {DocA, DocB}, keys |-> {NoKey},
     signatures |-> {<<>>},
     times |-> {1}, creators |-> {CreatorA}, fails |-> {"", "PutState"},
     createArgs |-> {3, 4}, mutateArgs |-> {3}, getArgs |-> {1}]

\* three DIDs, for the stores of ScanSpec, which hold values that were not
\* written by this chaincode
Scan ==
    [name |-> "scan", dids |-> {Did1, Did2, Did3},
     documents |-> {DocA}, keys |-> {NoKey},
     signatures |-> {<<>>},
     times |-> {1}, creators |-> {CreatorA},
     fails |-> {"", "GetStateByRange", "Next", "json.Marshal"},
     createArgs |-> {3}, mutateArgs |-> {3}, getArgs |-> {1}]

Workloads ==
    {Authorization, Endorsement, Attribution, Registry, Faults, Replication, Scan}

\* env names the workload; In is the workload
In == CHOOSE w \in Workloads : w.name = env

(***************************************************************************)
(* The state machine                                                       *)
(***************************************************************************)
NoTx ==
    [function |-> "", args |-> <<>>, txTimestamp |-> ZeroTime,
     creator |-> <<>>, fail |-> ""]

NoResp == [status |-> "", message |-> "", payload |-> NilBytes]

\* the second peer before any transaction
NoReplica == [ledger |-> <<>>, resp |-> NoResp]

Init ==
    /\ ledger = <<>>
    /\ tx = NoTx
    /\ resp = NoResp
    /\ env \in {w.name : w \in Workloads \ {Scan}}
    /\ replica = NoReplica
    /\ pending = {}
    /\ commits = <<>>
    /\ iterators = 0

\* the stub of a transaction of the workload
Stub(function, args, txTimestamp, creator, fail) ==
    [function |-> function, args |-> args, txTimestamp |-> txTimestamp,
     creator |-> creator, fail |-> fail]

\* Invoke runs on the stub of the transaction
Serve(stub) ==
    LET result == Invoke(stub, ledger) IN
    /\ tx' = stub
    /\ resp' = result.resp
    /\ ledger' = result.state
    /\ iterators' = result.open
    /\ UNCHANGED <<env, replica, pending, commits>>

\* the peer serves one transaction at a time
Idle == tx = NoTx

\* the version of the record under did (0 when there is none)
VersionOf(state, did) == Unmarshal(GetState(state, did)).doc.Version

CreateDID ==
    /\ Idle
    /\ \E did \in In.dids, longFormDid \in {LongForm1}, document \in In.documents,
          updateKey \in In.keys, recoveryKey \in In.keys, n \in In.createArgs,
          t \in In.times, creator \in In.creators, fail \in In.fails :
           Serve(Stub("CreateDID",
                      SubSeq(<<did, longFormDid, document, updateKey, recoveryKey, Junk>>, 1, n),
                      t, creator, fail))

UpdateDID ==
    /\ Idle
    /\ \E did \in In.dids :
        /\ VersionOf(ledger, did) < MaxVersion
        /\ \E document \in In.documents,
              signature \in In.signatures, n \in In.mutateArgs,
              t \in In.times, creator \in In.creators, fail \in In.fails :
               Serve(Stub("UpdateDID",
                          SubSeq(<<did, document, signature, Junk>>, 1, n),
                          t, creator, fail))

RecoverDID ==
    /\ Idle
    /\ \E did \in In.dids :
        /\ VersionOf(ledger, did) < MaxVersion
        /\ \E document \in In.documents,
              signature \in In.signatures, n \in In.mutateArgs,
              t \in In.times, creator \in In.creators, fail \in In.fails :
               Serve(Stub("RecoverDID",
                          SubSeq(<<did, document, signature, Junk>>, 1, n),
                          t, creator, fail))

GetDID ==
    /\ Idle
    /\ \E did \in In.dids, n \in In.getArgs,
          t \in In.times, creator \in In.creators, fail \in In.fails :
           Serve(Stub("GetDID", SubSeq(<<did, Junk>>, 1, n), t, creator, fail))

ListDIDs ==
    /\ Idle
    /\ \E t \in In.times, creator \in In.creators, fail \in In.fails :
           Serve(Stub("ListDIDs", <<>>, t, creator, fail))

Other ==
    /\ Idle
    /\ \E function \in {"InitLedger", "GetVersion", "GetNetworkInfo", "DeleteDID"},
          did \in In.dids, t \in In.times, creator \in In.creators, fail \in In.fails :
           Serve(Stub(function, <<did>>, t, creator, fail))

\* the response is returned and the stub discarded, with the iterators the
\* handler left to the peer to clean up
Done ==
    /\ ~Idle
    /\ tx' = NoTx
    /\ resp' = NoResp
    /\ iterators' = 0
    /\ UNCHANGED <<ledger, env, replica, pending, commits>>

Next ==
    \/ CreateDID
    \/ UpdateDID
    \/ RecoverDID
    \/ GetDID
    \/ ListDIDs
    \/ Other
    \/ Done

Spec == Init /\ [][Next]_vars

(***************************************************************************)
(* A world state that was not written by this chaincode alone: the         *)
(* namespace of a chaincode outlives its upgrades, so a key may hold bytes *)
(* that are no JSON at all.  ScanSpec runs the same transactions from such *)
(* a store.                                                                *)
(***************************************************************************)
\* bytes that json.Unmarshal refuses
NotJSON == Text("not json")

\* the record CreateDID stores under did
StoredRecord(did) ==
    Marshal(NewDIDDocument(did, LongForm1, DocA, NoKey, NoKey, 1, OrganizationOf(CreatorA)))

\* the stores with records and undecodable values under some of the DIDs
ScanStores ==
    UNION {[keys -> {"record", "not json"}] : keys \in SUBSET Scan.dids}

ScanInit ==
    /\ \E kinds \in ScanStores :
           ledger = [k \in DOMAIN kinds |->
                        IF kinds[k] = "record" THEN StoredRecord(k) ELSE NotJSON]
    /\ tx = NoTx
    /\ resp = NoResp
    /\ env = Scan.name
    /\ replica = NoReplica
    /\ pending = {}
    /\ commits = <<>>
    /\ iterators = 0

ScanSpec == ScanInit /\ [][Next]_vars

(***************************************************************************)
(* The first version of the chaincode (src/did-contract.go from line 441   *)
(* on): no keys, no organizations, and the times of a record are read      *)
(* from the peer's wall clock with time.Now().  Its definitions carry the  *)
(* suffix 0.  A handler gets, besides the stub and the world state, the    *)
(* values its peer's clock returns to its first and its second read.       *)
(***************************************************************************)
\* A wall clock reads 1..MaxClock.
MaxClock == 2

\* what two successive reads of time.Now() on one peer can return
Clocks == {c \in (1..MaxClock) \X (1..MaxClock) : c[1] <= c[2]}

\* the zero value of the struct DIDDocument of the first version
ZeroDIDDocument0 ==
    [DID |-> <<>>, LongFormDID |-> <<>>, Document |-> <<>>,
     CreatedAt |-> ZeroTime, UpdatedAt |-> ZeroTime, Version |-> 0,
     Recovered |-> FALSE, RecoveredAt |-> ZeroTime]

\* json.Marshal(DIDDocument) of the first version
Marshal0(d) ==
    [kind |-> "json",
     obj  |-> [did |-> d.DID, longFormDid |-> d.LongFormDID,
               document |-> d.Document, createdAt |-> d.CreatedAt,
               updatedAt |-> d.UpdatedAt, version |-> d.Version,
               recoveredAt |-> d.RecoveredAt]
              @@ Member("recovered", d.Recovered, d.Recovered = FALSE)]

\* json.Unmarshal(bytes, &DIDDocument) of the first version
Unmarshal0(bytes) ==
    IF bytes.kind # "json" THEN [err |-> TRUE, doc |-> ZeroDIDDocument0]
    ELSE [err |-> FALSE,
          doc |-> [DID         |-> Field(bytes.obj, "did", <<>>),
                   LongFormDID |-> Field(bytes.obj, "longFormDid", <<>>),
                   Document    |-> Field(bytes.obj, "document", <<>>),
                   CreatedAt   |-> Field(bytes.obj, "createdAt", ZeroTime),
                   UpdatedAt   |-> Field(bytes.obj, "updatedAt", ZeroTime),
                   Version     |-> Field(bytes.obj, "version", 0),
                   Recovered   |-> Field(bytes.obj, "recovered", FALSE),
                   RecoveredAt |-> Field(bytes.obj, "recoveredAt", ZeroTime)]]

createDID0(stub, state, now) ==
    LET args == stub.args IN
    IF Len(args) # 3
    THEN Return(Error("Incorrect number of arguments. Expecting 3"), state)
    ELSE
    LET did         == args[1]
        existingDID == GetState(state, did)
        didDocument ==
            [ZeroDIDDocument0 EXCEPT
                !.DID = did, !.LongFormDID = args[2], !.Document = args[3],
                !.CreatedAt = now[1], !.UpdatedAt = now[2], !.Version = 1]
        didJSON     == Marshal0(didDocument)
    IN
    IF Fails(stub, "GetState")
    THEN Return(Error("Failed to get DID: %s"), state)
    ELSE IF DIDExists(existingDID)
    THEN Return(Error("DID %s already exists"), state)
    ELSE IF Fails(stub, "PutState") \/ KeyRefused(did)
    THEN Return(Error("PutState: %s"), state)
    ELSE Return(Success(didJSON), PutState(state, did, didJSON))

updateDID0(stub, state, now) ==
    LET args == stub.args IN
    IF Len(args) # 3
    THEN Return(Error("Incorrect number of arguments. Expecting 3"), state)
    ELSE
    LET did         == args[1]
        didJSON     == GetState(state, did)
        decoded     == Unmarshal0(didJSON)
        updatedJSON ==
            Marshal0([decoded.doc EXCEPT
                         !.Document = args[2], !.UpdatedAt = now[1],
                         !.Version = @ + 1])
    IN
    IF Fails(stub, "GetState")
    THEN Return(Error("Failed to get DID: %s"), state)
    ELSE IF DIDMissing(didJSON)
    THEN Return(Error("DID %s does not exist"), state)
    ELSE IF decoded.err
    THEN Return(Error("json.Unmarshal: %s"), state)
    ELSE IF Fails(stub, "PutState")
    THEN Return(Error("PutState: %s"), state)
    ELSE Return(Success(updatedJSON), PutState(state, did, updatedJSON))

recoverDID0(stub, state, now) ==
    LET args == stub.args IN
    IF Len(args) # 3
    THEN Return(Error("Incorrect number of arguments. Expecting 3"), state)
    ELSE
    LET did           == args[1]
        didJSON       == GetState(state, did)
        decoded       == Unmarshal0(didJSON)
        recoveredJSON ==
            Marshal0([decoded.doc EXCEPT
                         !.Document = args[2], !.UpdatedAt = now[1],
                         !.Version = @ + 1, !.Recovered = TRUE,
                         !.RecoveredAt = now[2]])
    IN
    IF Fails(stub, "GetState")
    THEN Return(Error("Failed to get DID: %s"), state)
    ELSE IF DIDMissing(didJSON)
    THEN Return(Error("DID %s does not exist"), state)
    ELSE IF decoded.err
    THEN Return(Error("json.Unmarshal: %s"), state)
    ELSE IF Fails(stub, "PutState")
    THEN Return(Error("PutState: %s"), state)
    ELSE Return(Success(recoveredJSON), PutState(state, did, recoveredJSON))

\* json.Marshal([]DIDDocument) of the first version
MarshalList0(dids) ==
    IF dids = <<>> THEN [kind |-> "json null"]
    ELSE [kind |-> "json array",
          items |-> [i \in 1..Len(dids) |-> Marshal0(dids[i]).obj]]

listDIDs0(stub, state) ==
    LET keys == Ascending(DOMAIN state)
        dids == [i \in 1..Len(keys) |-> Unmarshal0(state[keys[i]]).doc]
    IN
    IF Fails(stub, "GetStateByRange")
    THEN Return(Error("GetStateByRange: %s"), state)
    ELSE \* defer resultsIterator.Close() runs at every return below
         Closed(Opened(
             IF keys # <<>> /\ Fails(stub, "Next")
             THEN Return(Error("Next: %s"), state)
             ELSE IF \E i \in 1..Len(keys) : Unmarshal0(state[keys[i]]).err
             THEN Return(Error("json.Unmarshal: %s"), state)
             ELSE Return(Success(MarshalList0(dids)), state)))

\* getDID of the first version is getDID, line for line the same
Invoke0(stub, state, now) ==
    CASE stub.function = "InitLedger" -> Return(Success(NilBytes), state)
      [] stub.function = "CreateDID"  -> createDID0(stub, state, now)
      [] stub.function = "UpdateDID"  -> updateDID0(stub, state, now)
      [] stub.function = "RecoverDID" -> recoverDID0(stub, state, now)
      [] stub.function = "GetDID"     -> getDID(stub, state)
      [] stub.function = "ListDIDs"   -> listDIDs0(stub, state)
      [] OTHER -> Return(Error("Invalid function name"), state)

(***************************************************************************)
(* Two peers execute each transaction on the first version of the          *)
(* chaincode, each on its own world state and with its own wall clock.     *)
(* The peers are given a transaction while their world states are equal.   *)
(***************************************************************************)
ReplicaInit ==
    /\ ledger = <<>>
    /\ tx = NoTx
    /\ resp = NoResp
    /\ env = Replication.name
    /\ replica = NoReplica
    /\ pending = {}
    /\ commits = <<>>
    /\ iterators = 0

\* Invoke runs on the stub of the transaction on both peers
Serve0(stub) ==
    \E now \in Clocks, replicaNow \in Clocks :
        LET result        == Invoke0(stub, ledger, now)
            replicaResult == Invoke0(stub, replica.ledger, replicaNow)
        IN
        /\ tx' = stub
        /\ resp' = result.resp
        /\ ledger' = result.state
        /\ replica' = [ledger |-> replicaResult.state, resp |-> replicaResult.resp]
        /\ iterators' = result.open
        /\ UNCHANGED <<env, pending, commits>>

\* both peers are idle on the same world state
Ready == Idle /\ replica.ledger = ledger

ReplicaCreateDID ==
    /\ Ready
    /\ \E did \in In.dids, longFormDid \in {LongForm1}, document \in In.documents,
          n \in In.createArgs, t \in In.times, creator \in In.creators, fail \in In.fails :
           Serve0(Stub("CreateDID",
                       SubSeq(<<did, longFormDid, document, Junk>>, 1, n),
                       t, creator, fail))

ReplicaUpdateDID ==
    /\ Ready
    /\ \E did \in In.dids :
        /\ VersionOf(ledger, did) < MaxVersion
        /\ \E document \in In.documents, signature \in In.signatures,
              t \in In.times, creator \in In.creators, fail \in In.fails :
               Serve0(Stub("UpdateDID", <<did, document, signature>>, t, creator, fail))

ReplicaRecoverDID ==
    /\ Ready
    /\ \E did \in In.dids :
        /\ VersionOf(ledger, did) < MaxVersion
        /\ \E document \in In.documents, signature \in In.signatures,
              t \in In.times, creator \in In.creators, fail \in In.fails :
               Serve0(Stub("RecoverDID", <<did, document, signature>>, t, creator, fail))

ReplicaRead ==
    /\ Ready
    /\ \E function \in {"GetDID", "ListDIDs", "InitLedger", "GetVersion"},
          did \in In.dids, t \in In.times, creator \in In.creators :
           Serve0(Stub(function, <<did>>, t, creator, ""))

\* the responses are returned and the stubs discarded
ReplicaDone ==
    /\ ~Idle
    /\ tx' = NoTx
    /\ resp' = NoResp
    /\ replica' = [replica EXCEPT !.resp = NoResp]
    /\ iterators' = 0
    /\ UNCHANGED <<ledger, env, pending, commits>>

ReplicaNext ==
    \/ ReplicaCreateDID
    \/ ReplicaUpdateDID
    \/ ReplicaRecoverDID
    \/ ReplicaRead
    \/ ReplicaDone

ReplicaSpec == ReplicaInit /\ [][ReplicaNext]_vars

(***************************************************************************)
(* Concurrent transactions.  The peers execute a transaction against the   *)
(* committed world state without changing it; what the handler read with   *)
(* GetState and what it wrote with PutState go with the transaction, and   *)
(* the platform later commits the writes if the values read are still the  *)
(* committed ones, and drops the transaction otherwise.                    *)
(***************************************************************************)
\* At most MaxPending transactions are executed and not yet settled.
MaxPending == 2

\* the handlers that read the key args[0] return before the read when the
\* number of arguments is wrong
ReadsKey(stub) ==
    CASE stub.function = "CreateDID" -> Len(stub.args) \in 3..5
      [] stub.function \in {"UpdateDID", "RecoverDID"} -> Len(stub.args) = 3
      [] stub.function = "GetDID" -> Len(stub.args) = 1
      [] OTHER -> FALSE

\* Mutation of ReadSet: the handler writes the key without reading it
ReadSetNone(stub, state) == <<>>

\* the stub.GetState calls of a handler: the one key, with the value read
ReadSet(stub, state) ==
    IF ReadsKey(stub)
    THEN (stub.args[1] :> GetState(state, stub.args[1]))
    ELSE <<>>

\* the stub.PutState calls of a handler: the keys it leaves with new bytes
WriteSet(before, after) ==
    [k \in {j \in DOMAIN after : GetState(before, j) # after[j]} |-> after[k]]

\* no transaction has been committed on a did
NoCommits == [creates |-> 0, mutations |-> 0]
CommitsOf(did) == IF did \in DOMAIN commits THEN commits[did] ELSE NoCommits

ConcurrentInit ==
    /\ ledger = <<>>
    /\ tx = NoTx
    /\ resp = NoResp
    /\ env = Replication.name
    /\ replica = NoReplica
    /\ pending = {}
    /\ commits = <<>>
    /\ iterators = 0

\* a transaction is executed against the committed world state; one that
\* is answered with an error is not submitted
Execute(stub) ==
    LET result == Invoke(stub, ledger) IN
    /\ result.resp.status = "OK"
    /\ \E id \in (1..MaxPending) \ {p.id : p \in pending} :
           pending' = pending \cup
               {[id |-> id, stub |-> stub, resp |-> result.resp,
                 reads |-> ReadSet(stub, ledger),
                 writes |-> WriteSet(ledger, result.state)]}
    /\ UNCHANGED <<ledger, tx, resp, env, replica, commits, iterators>>

ExecuteCreateDID ==
    \E did \in In.dids, document \in In.documents, n \in In.createArgs,
       t \in In.times, creator \in In.creators :
        Execute(Stub("CreateDID",
                     SubSeq(<<did, LongForm1, document, NoKey>>, 1, n),
                     t, creator, ""))

ExecuteUpdateDID ==
    \E did \in In.dids :
        /\ VersionOf(ledger, did) < MaxVersion
        /\ \E document \in In.documents, signature \in In.signatures,
              t \in In.times, creator \in In.creators :
               Execute(Stub("UpdateDID", <<did, document, signature>>, t, creator, ""))

ExecuteRecoverDID ==
    \E did \in In.dids :
        /\ VersionOf(ledger, did) < MaxVersion
        /\ \E document \in In.documents, signature \in In.signatures,
              t \in In.times, creator \in In.creators :
               Execute(Stub("RecoverDID", <<did, document, signature>>, t, creator, ""))

\* the values the transaction read are the committed ones
Valid(p, state) == \A k \in DOMAIN p.reads : GetState(state, k) = p.reads[k]

\* the commit counts after the transaction is committed
Counted(p) ==
    LET did == p.stub.args[1]
        old == CommitsOf(did)
    IN (did :> IF p.stub.function = "CreateDID"
               THEN [old EXCEPT !.creates = @ + 1]
               ELSE [old EXCEPT !.mutations = @ + 1]) @@ commits

Commit ==
    \E p \in pending :
        /\ Valid(p, ledger)
        /\ ledger' = p.writes @@ ledger
        /\ commits' = Counted(p)
        /\ pending' = pending \ {p}
        /\ UNCHANGED <<tx, resp, env, replica, iterators>>

Invalidate ==
    \E p \in pending :
        /\ ~Valid(p, ledger)
        /\ pending' = pending \ {p}
        /\ UNCHANGED <<ledger, tx, resp, env, replica, commits, iterators>>

ConcurrentNext ==
    \/ ExecuteCreateDID
    \/ ExecuteUpdateDID
    \/ ExecuteRecoverDID
    \/ Commit
    \/ Invalidate

ConcurrentSpec == ConcurrentInit /\ [][ConcurrentNext]_vars

(***************************************************************************)
(* Properties                                                              *)
(***************************************************************************)
\* A step that serves a transaction: tx' is its stub, resp' its response,
\* ledger the world state before it and ledger' the world state after it.
Serving == Idle /\ tx' # NoTx

\* the transaction served calls function on did with a right number of arguments
Calls(stub, function, did) ==
    /\ stub.function = function
    /\ Len(stub.args) >= 1
    /\ stub.args[1] = did
    /\ function = "CreateDID" => Len(stub.args) \in 3..5
    /\ function \in {"UpdateDID", "RecoverDID"} => Len(stub.args) = 3
    /\ function = "GetDID" => Len(stub.args) = 1

Accepted(r) == r.status = "OK"

Dids == {Did1, Did2}

\* the record stored under did (the zero document when there is none)
RecordOf(state, did) == Unmarshal(GetState(state, did)).doc

\* C1: CreateDID on a did that already has a record leaves the record under
\* did exactly as it was, and (called with 3 to 5 arguments, the read of the
\* key succeeding) fails with AlreadyExists.
C1_CreateExistingFails ==
    [][\A did \in Dids :
        (/\ Serving
         /\ tx'.function = "CreateDID"
         /\ Len(tx'.args) >= 1 /\ tx'.args[1] = did
         /\ GetState(ledger, did) # NilBytes)
        => /\ GetState(ledger', did) = GetState(ledger, did)
           /\ (Calls(tx', "CreateDID", did) /\ tx'.fail # "GetState")
                  => AlreadyExists(resp')]_vars

\* a second CreateDID with another document and other keys was refused
C1_Witness ==
    /\ Calls(tx, "CreateDID", Did1)
    /\ AlreadyExists(resp)
    /\ Len(tx.args) = 5
    /\ RecordOf(ledger, Did1).Document # tx.args[3]
    /\ RecordOf(ledger, Did1).UpdateKey # tx.args[4]

\* C2: the version of a DID is 1 + the number of accepted UpdateDID and
\* RecoverDID calls on it: an accepted CreateDID takes it from no record to
\* 1, an accepted UpdateDID or RecoverDID on the DID adds exactly 1, and
\* every other step (a failing call, a call on another DID) leaves it as it is.
C2_VersionCountsMutations ==
    [][\A did \in Dids :
        LET before == VersionOf(ledger, did)
            after  == VersionOf(ledger', did)
        IN IF Serving /\ Accepted(resp') /\ Calls(tx', "CreateDID", did)
           THEN before = 0 /\ after = 1
           ELSE IF /\ Serving /\ Accepted(resp')
                   /\ \/ Calls(tx', "UpdateDID", did)
                      \/ Calls(tx', "RecoverDID", did)
           THEN before >= 1 /\ after = before + 1
           ELSE after = before]_vars

\* an update and a recovery were accepted on one DID while the other DID,
\* created too, stayed at version 1
C2_Witness ==
    /\ Calls(tx, "RecoverDID", Did1)
    /\ Accepted(resp)
    /\ VersionOf(ledger, Did1) = 3
    /\ RecordOf(ledger, Did1).Recovered = TRUE
    /\ VersionOf(ledger, Did2) = 1

\* C3: recovered is false after CreateDID, true after an accepted
\* RecoverDID, and once true it is true in every later state.
C3_RecoveredIsOneWay ==
    [][\A did \in Dids :
        /\ (Serving /\ Accepted(resp') /\ Calls(tx', "CreateDID", did))
               => RecordOf(ledger', did).Recovered = FALSE
        /\ (Serving /\ Accepted(resp') /\ Calls(tx', "RecoverDID", did))
               => RecordOf(ledger', did).Recovered = TRUE
        /\ RecordOf(ledger, did).Recovered = TRUE
               => RecordOf(ledger', did).Recovered = TRUE]_vars

\* an UpdateDID was accepted on a recovered DID, which is still recovered
C3_Witness ==
    /\ Calls(tx, "UpdateDID", Did1)
    /\ Accepted(resp)
    /\ RecordOf(ledger, Did1).Recovered = TRUE
    /\ RecordOf(ledger, Did1).RecoveredAt # RecordOf(ledger, Did1).UpdatedAt

\* the signature carries the digest block of message under key
Carries(signature, message, key) ==
    signature # <<>> /\ Contains(signature, ExpectedSig16(message \o key))

\* C4: when the stored updateKey is not empty, an UpdateDID whose proof is
\* empty or lacks the digest block of (did, newDocument, version + 1) under
\* updateKey is not accepted and changes nothing in the world state; it
\* fails with Unauthorized unless reading the key or the transaction time
\* failed before.
C4_BadUpdateProofRejected ==
    [][\A did \in Dids :
        LET existing == RecordOf(ledger, did) IN
        (/\ Serving
         /\ Calls(tx', "UpdateDID", did)
         /\ GetState(ledger, did) # NilBytes
         /\ existing.UpdateKey # <<>>
         /\ ~Carries(tx'.args[3],
                     UpdateMessage(did, tx'.args[2], existing.Version + 1),
                     existing.UpdateKey))
        => /\ ~Accepted(resp')
           /\ ledger' = ledger
           /\ tx'.fail \notin {"GetState", "GetTxTimestamp"}
                  => Unauthorized(resp')]_vars

\* an UpdateDID whose proof is the digest block for the current version,
\* not the next one, was refused
C4_Witness ==
    /\ Calls(tx, "UpdateDID", Did1)
    /\ Unauthorized(resp)
    /\ RecordOf(ledger, Did1).UpdateKey = KeyK
    /\ tx.args[3] = ExpectedSig16(
           UpdateMessage(Did1, tx.args[2], RecordOf(ledger, Did1).Version)
           \o KeyK)

\* C5: when the stored updateKey is empty (whatever the recoveryKey), an
\* UpdateDID is accepted for every proof, if no platform call fails.
C5_NoUpdateKeyAnyProof ==
    [][\A did \in Dids :
        (/\ Serving
         /\ Calls(tx', "UpdateDID", did)
         /\ GetState(ledger, did) # NilBytes
         /\ RecordOf(ledger, did).UpdateKey = <<>>
         /\ tx'.fail = "")
        => /\ Accepted(resp')
           /\ RecordOf(ledger', did).Document = tx'.args[2]]_vars

\* an UpdateDID with the empty proof was accepted on a DID that has a
\* recoveryKey and no updateKey
C5_Witness ==
    /\ Calls(tx, "UpdateDID", Did1)
    /\ Accepted(resp)
    /\ tx.args[3] = <<>>
    /\ RecordOf(ledger, Did1).UpdateKey = NoKey
    /\ RecordOf(ledger, Did1).RecoveryKey = KeyK

\* C6: a RecoverDID on a stored record is authorized exactly when the
\* stored recoveryKey is empty or the proof carries the digest block of
\* (did, recovery marker, newDocument, version + 1) under recoveryKey,
\* whatever the updateKey: authorized, it is accepted if no platform call
\* fails; not authorized, it is not accepted, changes nothing and fails with
\* Unauthorized unless reading the key or the transaction time failed before.
C6_RecoveryAuthorization ==
    [][\A did \in Dids :
        LET existing == RecordOf(ledger, did)
            authorized ==
                \/ existing.RecoveryKey = <<>>
                \/ Carries(tx'.args[3],
                           RecoveryMessage(did, tx'.args[2], existing.Version + 1),
                           existing.RecoveryKey)
        IN
        (/\ Serving
         /\ Calls(tx', "RecoverDID", did)
         /\ GetState(ledger, did) # NilBytes)
        => /\ (authorized /\ tx'.fail = "") => Accepted(resp')
           /\ ~authorized => (~Accepted(resp') /\ ledger' = ledger)
           /\ (~authorized /\ tx'.fail \notin {"GetState", "GetTxTimestamp"})
                  => Unauthorized(resp')]_vars

\* a RecoverDID was accepted on a DID that has a recoveryKey and no
\* updateKey, with a proof that carries the digest block inside other
\* characters
C6_Witness ==
    /\ Calls(tx, "RecoverDID", Did1)
    /\ Accepted(resp)
    /\ RecordOf(ledger, Did1).RecoveryKey = KeyK
    /\ RecordOf(ledger, Did1).UpdateKey = NoKey
    /\ Len(tx.args[3]) = 3

\* the organizations of a list, and a list that names none twice
Range(list) == {list[i] : i \in 1..Len(list)}
Distinct(list) == Cardinality(Range(list)) = Len(list)

\* C7: no record's endorsedBy names an organization twice, no step removes
\* or reorders a label (the old list is a prefix of the new one), and an
\* accepted UpdateDID or RecoverDID appends the caller's organization
\* exactly when the list did not have it.
C7_EndorsedByGrows ==
    /\ [](\A did \in DOMAIN ledger : Distinct(RecordOf(ledger, did).EndorsedBy))
    /\ [][\A did \in DOMAIN ledger :
            LET old == RecordOf(ledger, did).EndorsedBy
                new == RecordOf(ledger', did).EndorsedBy
                org == OrganizationOf(tx'.creator)
            IN /\ Len(old) <= Len(new)
               /\ SubSeq(new, 1, Len(old)) = old
               /\ (/\ Serving /\ Accepted(resp')
                   /\ \/ Calls(tx', "UpdateDID", did)
                      \/ Calls(tx', "RecoverDID", did))
                  => new = IF org \in Range(old) THEN old ELSE Append(old, org)
               /\ ~(/\ Serving /\ Accepted(resp')
                    /\ \/ Calls(tx', "UpdateDID", did)
                       \/ Calls(tx', "RecoverDID", did))
                  => new = old]_vars

\* the creator's organization mutated its DID again after another
\* organization had: the list still names each once, in the order of arrival
C7_Witness ==
    /\ Calls(tx, "UpdateDID", Did1)
    /\ Accepted(resp)
    /\ OrganizationOf(tx.creator) = <<"CompanyB">>
    /\ RecordOf(ledger, Did1).EndorsedBy = <<<<"CompanyB">>, <<"unknown">>>>
    /\ VersionOf(ledger, Did1) = 3

\* C8: did, longFormDid, createdAt, createdBy, updateKey and recoveryKey of
\* a stored record are the same after every step.
C8_CreationFieldsImmutable ==
    [][\A did \in DOMAIN ledger :
        LET old == RecordOf(ledger, did)
            new == RecordOf(ledger', did)
        IN /\ did \in DOMAIN ledger'
           /\ new.DID = did /\ old.DID = did
           /\ new.LongFormDID = old.LongFormDID
           /\ new.CreatedAt = old.CreatedAt
           /\ new.CreatedBy = old.CreatedBy
           /\ new.UpdateKey = old.UpdateKey
           /\ new.RecoveryKey = old.RecoveryKey]_vars

\* a RecoverDID by another organization at another time was accepted
C8_Witness ==
    /\ Calls(tx, "RecoverDID", Did1)
    /\ Accepted(resp)
    /\ RecordOf(ledger, Did1).CreatedAt # tx.txTimestamp
    /\ RecordOf(ledger, Did1).CreatedBy # OrganizationOf(tx.creator)

\* C9: a transaction that returns an error other than that of the write
\* itself leaves the whole world state as it was.
C9_ErrorsWriteNothing ==
    [][(Serving /\ resp'.status = "ERROR" /\ ~WriteFailed(resp'))
           => ledger' = ledger]_vars

\* a RecoverDID on a stored DID with a registered recoveryKey was refused
\* for its proof
C9_Witness ==
    /\ Calls(tx, "RecoverDID", Did1)
    /\ Unauthorized(resp)
    /\ tx.args[3] # <<>>
    /\ RecordOf(ledger, Did1).Document # tx.args[2]

\* C10: UpdateDID, RecoverDID and GetDID on a did without a record fail
\* with NotFound whatever the document and the proof (and whichever later
\* platform call would fail), and the world state stays as it was.
C10_AbsentDidNotFound ==
    [][\A did \in Dids :
        (/\ Serving
         /\ \/ Calls(tx', "UpdateDID", did)
            \/ Calls(tx', "RecoverDID", did)
            \/ Calls(tx', "GetDID", did)
         /\ GetState(ledger, did) = NilBytes
         /\ tx'.fail # "GetState")
        => /\ NotFound(resp')
           /\ ledger' = ledger
           /\ did \notin DOMAIN ledger']_vars

\* an UpdateDID with a junk proof on a did without a record was answered
\* NotFound while another DID is stored
C10_Witness ==
    /\ Calls(tx, "UpdateDID", Did2)
    /\ NotFound(resp)
    /\ tx.args[3] = <<Junk>>
    /\ Did2 \notin DOMAIN ledger
    /\ Did1 \in DOMAIN ledger

\* the organization label of the callers of the workloads
LabelOf(creator) ==
    CASE creator = CreatorA -> <<"CompanyA">>
      [] creator = CreatorB -> <<"CompanyB">>
      [] creator = CreatorOther -> <<"unknown">>

\* C11: an accepted CreateDID(did, longFormDid, document, updateKey?,
\* recoveryKey?) stores under did, and returns, the record with version 1,
\* createdAt = updatedAt = the transaction's timestamp, recovered false,
\* recoveredAt unset, createdBy the caller's organization, endorsedBy the
\* list of that one organization, document and longFormDid as given and
\* updateKey / recoveryKey the 4th / 5th argument, empty when left out; the
\* other keys of the world state stay as they were.
C11_CreateResult ==
    [][\A did \in Dids :
        (Serving /\ Accepted(resp') /\ Calls(tx', "CreateDID", did))
        => LET args == tx'.args IN
           /\ ledger' = (did :> resp'.payload) @@ ledger
           /\ did \notin DOMAIN ledger
           /\ ~Unmarshal(resp'.payload).err
           /\ RecordOf(ledger', did) =
                 [DID |-> did, LongFormDID |-> args[2], Document |-> args[3],
                  CreatedAt |-> tx'.txTimestamp, UpdatedAt |-> tx'.txTimestamp,
                  Version |-> 1, Recovered |-> FALSE, RecoveredAt |-> ZeroTime,
                  UpdateKey |-> IF Len(args) >= 4 THEN args[4] ELSE <<>>,
                  RecoveryKey |-> IF Len(args) = 5 THEN args[5] ELSE <<>>,
                  CreatedBy |-> LabelOf(tx'.creator),
                  EndorsedBy |-> <<LabelOf(tx'.creator)>>]]_vars

\* a CreateDID with four arguments, an updateKey and no recoveryKey, was
\* accepted
C11_Witness ==
    /\ Calls(tx, "CreateDID", Did1)
    /\ Accepted(resp)
    /\ Len(tx.args) = 4
    /\ RecordOf(ledger, Did1).UpdateKey = KeyK
    /\ RecordOf(ledger, Did1).RecoveryKey = <<>>
    /\ resp.payload = GetState(ledger, Did1)

\* C12: for a record with a non-empty updateKey at version v, an UpdateDID
\* whose proof carries the digest block of the message of (did, newDocument,
\* v + 1) under updateKey is accepted (no platform call failing), whatever
\* surrounds the block; accepted, it leaves under did, and returns, the
\* record with document = newDocument, version = v + 1, updatedAt = the
\* transaction's timestamp and the caller's organization in endorsedBy, and
\* every other field as it was.
C12_UpdateAccepted ==
    [][\A did \in Dids :
        LET existing == RecordOf(ledger, did)
            new      == RecordOf(ledger', did)
            org      == LabelOf(tx'.creator)
        IN
        (/\ Serving
         /\ Calls(tx', "UpdateDID", did)
         /\ GetState(ledger, did) # NilBytes
         /\ existing.UpdateKey # <<>>)
        => /\ (/\ Carries(tx'.args[3],
                          UpdateMessage(did, tx'.args[2], existing.Version + 1),
                          existing.UpdateKey)
               /\ tx'.fail = "")
                  => Accepted(resp')
           /\ Accepted(resp')
                  => /\ ledger' = (did :> resp'.payload) @@ ledger
                     /\ new.Document = tx'.args[2]
                     /\ new.Version = existing.Version + 1
                     /\ new.UpdatedAt = tx'.txTimestamp
                     /\ org \in Range(new.EndorsedBy)
                     /\ new = [existing EXCEPT
                                  !.Document = new.Document,
                                  !.Version = new.Version,
                                  !.UpdatedAt = new.UpdatedAt,
                                  !.EndorsedBy = new.EndorsedBy]]_vars

\* an UpdateDID of a record at version 2, by another organization at another
\* time than its creation, was accepted on a proof that carries the digest
\* block for version 3 inside other characters
C12_Witness ==
    /\ Calls(tx, "UpdateDID", Did1)
    /\ Accepted(resp)
    /\ RecordOf(ledger, Did1).UpdateKey = KeyK
    /\ RecordOf(ledger, Did1).Version = 3
    /\ tx.args[3] = <<Junk>> \o ExpectedSig16(UpdateMessage(Did1, tx.args[2], 3) \o KeyK) \o <<Junk>>
    /\ RecordOf(ledger, Did1).CreatedAt # tx.txTimestamp
    /\ RecordOf(ledger, Did1).CreatedBy # LabelOf(tx.creator)

\* C13: a ListDIDs on which no platform call fails is accepted and returns
\* a sequence with exactly one record per did of the world state (the DIDs
\* created so far), each equal to the record stored under its did, in strictly
\* ascending order of did; on a world state without records the sequence it
\* returns is the empty one.
C13_ListReturnsAll ==
    [][(Serving /\ tx'.function = "ListDIDs" /\ tx'.fail = "")
        => /\ Accepted(resp')
           /\ ledger' = ledger
           /\ resp'.payload.kind = "json array"
           /\ LET items == resp'.payload.items
                  record(i) == Unmarshal([kind |-> "json", obj |-> items[i]]).doc
              IN /\ DOMAIN items = 1..Cardinality(DOMAIN ledger)
                 /\ {record(i).DID : i \in DOMAIN items} = DOMAIN ledger
                 /\ \A i \in DOMAIN items :
                        record(i) = RecordOf(ledger, record(i).DID)
                 /\ \A i, j \in DOMAIN items :
                        i < j => Less(record(i).DID, record(j).DID)]_vars

\* the transaction served is a CreateDID, UpdateDID or RecoverDID on did
Mutates(stub, did) ==
    \/ Calls(stub, "CreateDID", did)
    \/ Calls(stub, "UpdateDID", did)
    \/ Calls(stub, "RecoverDID", did)

\* C14: the record a GetDID on an existing did returns is the one the most
\* recent accepted CreateDID, UpdateDID or RecoverDID on that did returned,
\* and GetDID changes nothing.  Step by step: an accepted CreateDID,
\* UpdateDID or RecoverDID on did returns the bytes it leaves under did;
\* every other step (a call that fails, a call on another did, a read)
\* leaves the bytes under did as they are; and a GetDID on an existing did
\* (the read of the key succeeding) returns the bytes under did and leaves
\* the whole world state as it was.
C14_GetReturnsLastWritten ==
    [][\A did \in Dids :
        /\ (Serving /\ Accepted(resp') /\ Mutates(tx', did))
               => /\ resp'.payload = GetState(ledger', did)
                  /\ resp'.payload # NilBytes
        /\ ~(Serving /\ Accepted(resp') /\ Mutates(tx', did))
               => GetState(ledger', did) = GetState(ledger, did)
        /\ (/\ Serving
            /\ Calls(tx', "GetDID", did)
            /\ GetState(ledger, did) # NilBytes
            /\ tx'.fail # "GetState")
               => /\ Accepted(resp')
                  /\ resp'.payload = GetState(ledger, did)
                  /\ ledger' = ledger]_vars

\* a GetDID returned the record of a DID that was updated and recovered,
\* while a second DID is stored
C14_Witness ==
    /\ Calls(tx, "GetDID", Did1)
    /\ Accepted(resp)
    /\ Unmarshal(resp.payload).doc.Version = 3
    /\ Unmarshal(resp.payload).doc.Recovered = TRUE
    /\ Unmarshal(resp.payload).doc.Document = DocB
    /\ Did2 \in DOMAIN ledger

\* C15: no step removes a record: a did that has a record keeps one, so
\* from an accepted CreateDID(did) on every GetDID(did) is accepted (the
\* read of the key succeeding) and every CreateDID(did) is refused, whichever
\* operations are dispatched in between, unknown operation names included.
C15_NeverDeleted ==
    [][\A did \in Dids :
        /\ (Serving /\ Accepted(resp') /\ Calls(tx', "CreateDID", did))
               => GetState(ledger', did) # NilBytes
        /\ GetState(ledger, did) # NilBytes
               => /\ GetState(ledger', did) # NilBytes
                  /\ (/\ Serving /\ Calls(tx', "GetDID", did)
                      /\ tx'.fail # "GetState")
                         => Accepted(resp')
                  /\ (Serving /\ tx'.function = "CreateDID"
                      /\ Len(tx'.args) >= 1 /\ tx'.args[1] = did)
                         => ~Accepted(resp')]_vars

\* an operation with an unknown name was dispatched on a stored did and
\* refused
C15_Witness ==
    /\ tx.function = "DeleteDID"
    /\ tx.args = <<Did1>>
    /\ resp = Error("Invalid function name")
    /\ GetState(ledger, Did1) # NilBytes
    /\ Did2 \in DOMAIN ledger

\* C16: two peers that execute the same transaction (operation, arguments,
\* caller, transaction timestamp) on equal world states end in equal world
\* states and return equal responses, and the createdAt, updatedAt and
\* recoveredAt they write are the transaction's timestamp, whatever their
\* wall clocks read.
C16_Deterministic ==
    [][(Ready /\ tx' # NoTx)
        => /\ replica'.ledger = ledger'
           /\ replica'.resp = resp'
           /\ \A did \in DOMAIN ledger' :
                 LET new == Unmarshal0(ledger'[did]).doc
                     old == Unmarshal0(GetState(ledger, did)).doc
                 IN /\ new.CreatedAt \in {old.CreatedAt, tx'.txTimestamp}
                    /\ new.UpdatedAt \in {old.UpdatedAt, tx'.txTimestamp}
                    /\ new.RecoveredAt \in {old.RecoveredAt, tx'.txTimestamp}]_vars

\* C17: a CreateDID with 3 to 5 arguments whose did is the empty string
\* fails with InvalidArgument and leaves the world state as it was (stated
\* for the transactions on which no platform call is made to fail).
C17_EmptyDidInvalidArgument ==
    [][(Serving /\ Calls(tx', "CreateDID", EmptyDid) /\ tx'.fail = "")
        => /\ InvalidArgument(resp')
           /\ ledger' = ledger]_vars

\* sub occurs in s: s is some prefix of s, then sub, then the rest of s
Substring(s, sub) ==
    \E i \in 0..Len(s) :
        /\ i + Len(sub) <= Len(s)
        /\ s = SubSeq(s, 1, i) \o sub \o SubSeq(s, i + Len(sub) + 1, Len(s))

\* C18: validateSignature(message, proof, key) accepts only a proof in
\* which the digest prefix of message followed by key occurs, at any place;
\* for a non-empty key and a non-empty proof it accepts exactly those, and
\* the empty proof it always rejects.  Checked on the message and the proof
\* of every UpdateDID and RecoverDID served, under every key; and the
\* handler, with the stored key not empty and no platform call failing,
\* accepts the transaction exactly when the prefix occurs in the proof, a
\* refusal leaving the world state as it was.
C18_ValidateContract ==
    [][\A did \in Dids :
        (/\ Serving
         /\ Calls(tx', "UpdateDID", did) \/ Calls(tx', "RecoverDID", did))
        => LET existing == RecordOf(ledger, did)
               update   == tx'.function = "UpdateDID"
               proof    == tx'.args[3]
               message  ==
                   IF update
                   THEN UpdateMessage(did, tx'.args[2], existing.Version + 1)
                   ELSE RecoveryMessage(did, tx'.args[2], existing.Version + 1)
               stored   == IF update THEN existing.UpdateKey
                                     ELSE existing.RecoveryKey
               Occurs(key) == Substring(proof, ExpectedSig16(message \o key))
           IN
           /\ \A key \in {NoKey, KeyK, OtherKey} :
                 LET valid == validateSignature(message, proof, key) IN
                 /\ valid => Occurs(key)
                 /\ (key # <<>> /\ proof # <<>>) => (valid <=> Occurs(key))
                 /\ proof = <<>> => ~valid
           /\ (/\ GetState(ledger, did) # NilBytes
               /\ stored # <<>>
               /\ tx'.fail = "")
                  => /\ Accepted(resp') <=> Occurs(stored)
                     /\ ~Accepted(resp') => ledger' = ledger]_vars

\* a RecoverDID was accepted on a proof that carries the digest prefix
\* under the recoveryKey inside other characters, for a record that has
\* both keys
C18_Witness ==
    /\ Calls(tx, "RecoverDID", Did1)
    /\ Accepted(resp)
    /\ RecordOf(ledger, Did1).RecoveryKey = KeyK
    /\ RecordOf(ledger, Did1).UpdateKey = KeyK
    /\ Len(tx.args[3]) = 3
    /\ tx.args[3][2] = ExpectedSig16(
           RecoveryMessage(Did1, tx.args[2], RecordOf(ledger, Did1).Version)
           \o KeyK)[1]

\* the transaction is an UpdateDID or a RecoverDID
IsMutation(p) == p.stub.function \in {"UpdateDID", "RecoverDID"}

\* the transactions settled by the step, and whether the step committed
Settled == pending \ pending'
Committing == Settled # {} /\ commits' # commits

\* C19: each transaction reads the key once and writes at most that key,
\* and under the commit rule (a transaction commits only if the value it
\* read is still the committed one) two transactions on one did executed
\* against the same committed state do not both commit: after one commits,
\* the other no longer passes.  So one CreateDID is committed per did, every
\* committed UpdateDID or RecoverDID was executed on the record it replaces
\* and takes the version one up, and the committed version is 1 + the
\* number of committed mutations.
C19_NoLostUpdate ==
    /\ [](\A p \in pending :
             /\ DOMAIN p.reads = {p.stub.args[1]}
             /\ DOMAIN p.writes \subseteq DOMAIN p.reads)
    /\ [](\A did \in DOMAIN ledger :
             /\ CommitsOf(did).creates = 1
             /\ VersionOf(ledger, did) = 1 + CommitsOf(did).mutations)
    /\ [][Committing =>
            \A p \in Settled :
                LET did == p.stub.args[1] IN
                /\ GetState(ledger, did) = p.reads[did]
                /\ GetState(ledger', did) = p.writes[did]
                /\ IsMutation(p)
                       => VersionOf(ledger', did) = VersionOf(ledger, did) + 1
                /\ \A q \in pending' :
                       (q.stub.args[1] = did /\ q.reads = p.reads)
                           => ~Valid(q, ledger')]_vars

\* an UpdateDID and a RecoverDID were executed on the same record; one is
\* committed and the other, still pending, no longer passes
C19_Witness ==
    \E q \in pending :
        /\ IsMutation(q)
        /\ ~Valid(q, ledger)
        /\ VersionOf(ledger, Did1) = 2
        /\ Unmarshal(q.writes[Did1]).doc.Version = 2
        /\ Unmarshal(q.writes[Did1]).doc.Recovered # RecordOf(ledger, Did1).Recovered

\* the optional members of the serialized record, with the empty value of each
OptionalMembers ==
    [recovered |-> FALSE, recoveredAt |-> ZeroTime, updateKey |-> <<>>,
     recoveryKey |-> <<>>, createdBy |-> <<>>, endorsedBy |-> <<>>]

\* C20: in the serialized form of every stored record an optional member
\* (recovered, recoveredAt, updateKey, recoveryKey, createdBy, endorsedBy)
\* is left out when its value is empty and written otherwise: no member
\* that is written holds the empty value, the keys are written exactly when
\* CreateDID was given non-empty ones, and a record that was never recovered
\* has no recoveredAt.
C20_OptionalMembersOmitted ==
    \A did \in DOMAIN ledger :
        LET obj == ledger[did].obj IN
        /\ \A name \in DOMAIN OptionalMembers :
               name \in DOMAIN obj => obj[name] # OptionalMembers[name]
        /\ (Calls(tx, "CreateDID", did) /\ Accepted(resp))
               => /\ "updateKey" \in DOMAIN obj <=> OptionalArg(tx.args, 4) # <<>>
                  /\ "recoveryKey" \in DOMAIN obj <=> OptionalArg(tx.args, 5) # <<>>
                  /\ "createdBy" \in DOMAIN obj
                  /\ "endorsedBy" \in DOMAIN obj
        /\ "recovered" \in DOMAIN obj <=> "recoveredAt" \in DOMAIN obj

\* C21: when some stored value does not decode as a record, a ListDIDs whose
\* range scan itself does not fail is answered with the decode error and no
\* payload (no record of the store is returned, wherever the undecodable
\* value stands in key order), and the store is unchanged.
C21_CorruptValueFailsList ==
    [][(/\ Serving
        /\ tx'.function = "ListDIDs"
        /\ tx'.fail = ""
        /\ \E k \in DOMAIN ledger : ledger[k] = NotJSON)
       => /\ Corruption(resp')
          /\ resp'.payload = NilBytes
          /\ ledger' = ledger]_vars

\* ListDIDs was refused for the undecodable value under the last key, which
\* two records precede in key order
C21_CorruptAfterTwoRecords ==
    /\ tx # NoTx
    /\ tx.function = "ListDIDs"
    /\ tx.fail = ""
    /\ DOMAIN ledger = {Did1, Did2, Did3}
    /\ ~Unmarshal(ledger[Did1]).err
    /\ ~Unmarshal(ledger[Did2]).err
    /\ ledger[Did3] = NotJSON
    /\ Corruption(resp)
    /\ resp.payload = NilBytes

\* C22: an accepted RecoverDID(did, newDocument, proof) on a record at
\* version v leaves under did, and returns, the record with document =
\* newDocument, version = v + 1, updatedAt = recoveredAt = the transaction's
\* timestamp, recovered = true and the caller's organization appended to
\* endorsedBy when it was not in it; an accepted UpdateDID with the same
\* did, document, caller and timestamp gives the same record but for
\* recovered and recoveredAt, which it leaves as they were (so an update
\* after a recovery keeps recoveredAt, and a second recovery replaces it).
C22_RecoverLikeUpdate ==
    [][\A did \in Dids :
        LET existing == RecordOf(ledger, did)
            new      == RecordOf(ledger', did)
            org      == LabelOf(tx'.creator)
            common   == [existing EXCEPT
                            !.Document = tx'.args[2],
                            !.Version = existing.Version + 1,
                            !.UpdatedAt = tx'.txTimestamp,
                            !.EndorsedBy = IF org \in Range(existing.EndorsedBy)
                                           THEN existing.EndorsedBy
                                           ELSE Append(existing.EndorsedBy, org)]
        IN
        (/\ Serving
         /\ Accepted(resp')
         /\ Calls(tx', "UpdateDID", did) \/ Calls(tx', "RecoverDID", did))
        => /\ ledger' = (did :> resp'.payload) @@ ledger
           /\ Calls(tx', "UpdateDID", did) => new = common
           /\ Calls(tx', "RecoverDID", did)
                  => new = [common EXCEPT !.Recovered = TRUE,
                                          !.RecoveredAt = tx'.txTimestamp]]_vars

\* a record created by one organization and recovered at time 1 was
\* recovered again at time 2 by another organization
C22_RecoveredAgain ==
    /\ Calls(tx, "RecoverDID", Did1)
    /\ Accepted(resp)
    /\ tx.txTimestamp = 2
    /\ RecordOf(ledger, Did1).Version = 3
    /\ RecordOf(ledger, Did1).CreatedAt = 1
    /\ RecordOf(ledger, Did1).RecoveredAt = 2
    /\ RecordOf(ledger, Did1).UpdatedAt = 2
    /\ Len(RecordOf(ledger, Did1).EndorsedBy) = 2
    /\ RecordOf(ledger, Did1).CreatedBy # LabelOf(tx.creator)

\* C23: a ListDIDs leaves no range-scan iterator open when it returns,
\* whether it is accepted or returns early on the failure of the scan, of
\* Next, of the decoding of a value or of the serialization, and it leaves
\* the world state as it was.
C23_IteratorClosed ==
    [][(Serving /\ tx'.function = "ListDIDs")
       => /\ iterators' = 0
          /\ ledger' = ledger]_vars

\* a ListDIDs that had opened its iterator returned early, on a value that
\* does not decode, with the iterator closed
C23_ClosedOnDecodeFailure ==
    /\ tx # NoTx
    /\ tx.function = "ListDIDs"
    /\ tx.fail = ""
    /\ Corruption(resp)
    /\ \E k \in DOMAIN ledger : ledger[k] = NotJSON
    /\ iterators = 0

\* the transaction calls a handler with a number of arguments it refuses
WrongArity(stub) ==
    \/ stub.function = "CreateDID" /\ Len(stub.args) \notin 3..5
    \/ stub.function \in {"UpdateDID", "RecoverDID"} /\ Len(stub.args) # 3
    \/ stub.function = "GetDID" /\ Len(stub.args) # 1

\* the names Invoke dispatches
Dispatched ==
    {"InitLedger", "CreateDID", "UpdateDID", "RecoverDID", "GetDID",
     "ListDIDs", "GetVersion", "GetNetworkInfo"}

\* C24: a CreateDID with fewer than 3 or more than 5 arguments, an UpdateDID
\* or RecoverDID with another number than 3 and a GetDID with another number
\* than 1 are answered with the wrong-number-of-arguments error and leave the
\* world state as it was, whatever the store holds under the did, whatever
\* the proof and whichever platform call would fail (none is made); a name
\* that Invoke does not dispatch is answered with an error and leaves the
\* world state as it was.
C24_WrongArityRefusedFirst ==
    [][Serving
       => /\ WrongArity(tx')
                => /\ InvalidArgument(resp')
                   /\ resp'.payload = NilBytes
                   /\ ledger' = ledger
          /\ tx'.function \notin Dispatched
                => /\ ~Accepted(resp')
                   /\ ledger' = ledger]_vars

\* a GetDID with two arguments on a did without a record, in a transaction
\* whose read of the key would fail, was refused for its arguments
C24_ArityBeforeRead ==
    /\ tx # NoTx
    /\ tx.function = "GetDID"
    /\ Len(tx.args) = 2
    /\ tx.args[1] = Did1
    /\ tx.fail = "GetState"
    /\ GetState(ledger, Did1) = NilBytes
    /\ InvalidArgument(resp)

\* the response Invoke would give, on the world state state, to the
\* transaction stub calling function(did, document, proof)
Answer(stub, function, did, document, proof, state) ==
    Invoke([stub EXCEPT !.function = function, !.args = <<did, document, proof>>],
           state).resp

\* C25: for a record whose updateKey and recoveryKey are the same non-empty
\* string, the message an UpdateDID(did, document, proof) is checked against
\* differs from the message of every RecoverDID(did, document', .) at the
\* same version, and the proof of an accepted UpdateDID is refused by the
\* RecoverDID of every document on the same world state; likewise with
\* UpdateDID and RecoverDID exchanged.
C25_DistinctMessageShapes ==
    [][\A did \in Dids :
        LET existing == RecordOf(ledger, did)
            next     == existing.Version + 1
        IN
        (/\ Serving
         /\ Accepted(resp')
         /\ existing.UpdateKey # <<>>
         /\ existing.UpdateKey = existing.RecoveryKey)
        => /\ Calls(tx', "UpdateDID", did)
                => \A document \in In.documents :
                       /\ UpdateMessage(did, tx'.args[2], next)
                              # RecoveryMessage(did, document, next)
                       /\ Unauthorized(Answer(tx', "RecoverDID", did, document,
                                              tx'.args[3], ledger))
           /\ Calls(tx', "RecoverDID", did)
                => \A document \in In.documents :
                       /\ RecoveryMessage(did, tx'.args[2], next)
                              # UpdateMessage(did, document, next)
                       /\ Unauthorized(Answer(tx', "UpdateDID", did, document,
                                              tx'.args[3], ledger))]_vars

\* the proof that holds the digest block of message under key and nothing else
ProofOf(message, key) == ExpectedSig16(message \o key)

\* C26: for a record with a non-empty updateKey, an accepted UpdateDID(did,
\* doc, proof) whose proof is the digest block of (did, doc, v + 1) alone
\* is refused as Unauthorized when the same transaction is invoked again on
\* the world state it left, which stays as it is; and every UpdateDID served
\* later with the proof of a version the record has reached is not accepted
\* and changes nothing (Unauthorized unless the read of the key or of the
\* transaction's time fails first).  The same for RecoverDID with
\* recoveryKey and the recovery message.
C26_ProofBoundToVersion ==
    [][\A did \in Dids :
        LET existing == RecordOf(ledger, did)
            new      == RecordOf(ledger', did)
            IsUpdate == Calls(tx', "UpdateDID", did) /\ existing.UpdateKey # <<>>
            IsRecover == Calls(tx', "RecoverDID", did) /\ existing.RecoveryKey # <<>>
            consumed ==
                \E n \in 1..existing.Version :
                    \/ /\ IsUpdate
                       /\ tx'.args[3] = ProofOf(UpdateMessage(did, tx'.args[2], n),
                                                existing.UpdateKey)
                    \/ /\ IsRecover
                       /\ tx'.args[3] = ProofOf(RecoveryMessage(did, tx'.args[2], n),
                                                existing.RecoveryKey)
            fresh ==
                \/ /\ IsUpdate
                   /\ tx'.args[3] = ProofOf(UpdateMessage(did, tx'.args[2], existing.Version + 1),
                                            existing.UpdateKey)
                \/ /\ IsRecover
                   /\ tx'.args[3] = ProofOf(RecoveryMessage(did, tx'.args[2], existing.Version + 1),
                                            existing.RecoveryKey)
        IN
        (Serving /\ GetState(ledger, did) # NilBytes)
        => /\ (fresh /\ Accepted(resp'))
                  => /\ new.Version = existing.Version + 1
                     /\ Unauthorized(Invoke(tx', ledger').resp)
                     /\ Invoke(tx', ledger').state = ledger'
           /\ consumed
                  => /\ ~Accepted(resp')
                     /\ ledger' = ledger
                     /\ tx'.fail \notin {"GetState", "GetTxTimestamp"}
                            => Unauthorized(resp')]_vars

\* the UpdateDID that took a record with an updateKey to version 2 on the
\* proof of version 2 alone was submitted again and refused
C26_ReplayRefused ==
    /\ Calls(tx, "UpdateDID", Did1)
    /\ RecordOf(ledger, Did1).UpdateKey = KeyK
    /\ RecordOf(ledger, Did1).Version = 2
    /\ RecordOf(ledger, Did1).Document = tx.args[2]
    /\ tx.args[3] = ProofOf(UpdateMessage(Did1, tx.args[2], 2), KeyK)
    /\ Unauthorized(resp)

\* C27: in every state reached from the empty world state, every stored
\* value decodes as a record whose did is the key it is stored under, with
\* version >= 1 and a non-empty endorsedBy whose first element is createdBy;
\* and no response is the decode error.
C27_StoredRecordsWellFormed ==
    /\ \A key \in DOMAIN ledger :
          LET decoded == Unmarshal(ledger[key]) IN
          /\ ~decoded.err
          /\ ledger[key].kind = "json"
          /\ decoded.doc.DID = key
          /\ decoded.doc.Version >= 1
          /\ decoded.doc.EndorsedBy # <<>>
          /\ decoded.doc.EndorsedBy[1] = decoded.doc.CreatedBy
    /\ ~Corruption(resp)

\* two records, one of them recovered and at version 3, were listed
C27_TwoRecordsListed ==
    /\ tx # NoTx
    /\ tx.function = "ListDIDs"
    /\ Accepted(resp)
    /\ DOMAIN ledger = {Did1, Did2}
    /\ RecordOf(ledger, Did1).Version = 3
    /\ RecordOf(ledger, Did1).Recovered
    /\ RecordOf(ledger, Did2).Version = 2

\* the world state state without the keys other than key
Only(state, key) == [k \in DOMAIN state \cap {key} |-> state[k]]

\* C28: a CreateDID, UpdateDID or RecoverDID, accepted or not, leaves every
\* key other than its did argument as it was (holding the same bytes, or no
\* value), and its response and what it leaves under did are those it gives
\* on the world state that holds nothing under the other keys.
C28_OnlyOwnKey ==
    [][(/\ Serving
        /\ tx'.function \in {"CreateDID", "UpdateDID", "RecoverDID"}
        /\ Len(tx'.args) >= 1)
       => LET did == tx'.args[1] IN
          /\ \A key \in (DOMAIN ledger \cup DOMAIN ledger') \ {did} :
                GetState(ledger', key) = GetState(ledger, key)
          /\ Invoke(tx', Only(ledger, did)).resp = resp'
          /\ Invoke(tx', Only(ledger, did)).state = Only(ledger', did)]_vars

\* an UpdateDID of one did was accepted beside the record of another did
\* that had been updated to another document
C28_BesideAnotherRecord ==
    /\ Calls(tx, "UpdateDID", Did1)
    /\ Accepted(resp)
    /\ RecordOf(ledger, Did2).Version = 2
    /\ RecordOf(ledger, Did2).Document # RecordOf(ledger, Did1).Document

====
